---- MODULE Spec2Model ----
(***************************************************************************)
(* Model of the streaming trie builder of coding/trie_builder.hpp:        *)
(* trie::Build, builder::PopNodes, builder::WriteNodeReverse,             *)
(* builder::WriteNode and the two edge builders.                          *)
(*                                                                         *)
(* Bytes are the integers 0..255, a buffer or sink is a sequence of bytes. *)
(* Characters (TrieChar) are small non-negative integers, so that the     *)
(* 32-bit difference edge[i] - baseChar is the plain integer difference.  *)
(* Values are signed 8-bit scalars, dumped as one byte each; the maximum  *)
(* edge builder projects a value to itself and stores it as one byte.     *)
(* TrieChar, DEFAULT_CHAR, the varint and zigzag coders, the value list   *)
(* and the projection are declared outside this file: they are modelled   *)
(* from their use here and from the format comment of lines 10-39.        *)
(*                                                                         *)
(* Build is modelled step by step: pc = "loop" is the head of the loop of *)
(* line 246, pc = "pop" is inside PopNodes (one frame per step) and up to *)
(* the code that follows the call, "done" is the return of Build and      *)
(* "failed" a fatal CHECK or ASSERT.                                       *)
(***************************************************************************)
EXTENDS Integers, Sequences, FiniteSets, TLC

VARIABLES
    pc,          \* position of Build: "loop", "pop", "done", "failed"
    phase,       \* which PopNodes call is running: "entry" (line 259) or "final" (line 273)
    nodes,       \* the stack of NodeInfo frames (buffer_vector nodes)
    sink,        \* the bytes written to the sink so far
    prevKey,     \* TrieString prevKey
    prevE,       \* ElementT prevE
    e,           \* ElementT e, the entry of the current iteration
    nodesToPop,  \* the counter of the running PopNodes call
    input,       \* the entries the iterator has delivered so far (beg..it)
    policy,      \* the EdgeBuilderT instantiation: "empty" or "max"
    wn           \* the last call of WriteNode: its arguments and its output

vars == <<pc, phase, nodes, sink, prevKey, prevE, e, nodesToPop, input, policy, wn>>

----------------------------------------------------------------------------
(* Bounds of the model *)

\* longest key the iterator delivers
MaxKeyLen == 2
\* most entries the iterator delivers
MaxEntries == 3

\* character units: deltas 1, 2 fit a short edge, 70 does not and needs a
\* two-byte signed varint
Alphabet == {1, 2, 70}
\* the values entries carry (signed scalars)
Values == {-1, 2}

\* the label of the root frame (line 239) and its base character (line 276)
DEFAULT_CHAR == 0

----------------------------------------------------------------------------
(* Small helpers *)

Min(a, b) == IF a < b THEN a ELSE b

Reverse(s) == [i \in 1..Len(s) |-> s[Len(s) + 1 - i]]

Last(s) == s[Len(s)]

Front(s) == SubSeq(s, 1, Len(s) - 1)

\* all sequences over S of length 0..n
SeqsUpTo(S, n) == UNION {[1..k -> S] : k \in 0..n}

----------------------------------------------------------------------------
(* Integer coding (varint.hpp, bits.hpp) *)

RECURSIVE VarUint(_)
\* WriteVarUint: base 128, low group first, high bit = more bytes follow
VarUint(n) ==
    IF n < 128 THEN <<n>>
    ELSE <<(n % 128) + 128>> \o VarUint(n \div 128)

\* bits::ZigZagEncode: 0,-1,1,-2,2,... -> 0,1,2,3,4,...
ZigZagEncode(x) == IF x >= 0 THEN 2 * x ELSE -2 * x - 1

\* WriteVarInt
VarInt(x) == VarUint(ZigZagEncode(x))

----------------------------------------------------------------------------
(* Value list and edge builders *)

\* one value as its byte (two's complement of a signed 8-bit scalar)
ValueByte(v) == v % 256

\* ValueListT::Dump
Dump(valueList) == [i \in 1..Len(valueList) |-> ValueByte(valueList[i])]

\* MaxValueCalcT: projection of a value to the scalar that is maximised
MaxCalc(v) == v

\* EdgeBuilderT::AddValue
AddValue(pol, m, v) ==
    IF pol = "max" THEN (IF m < MaxCalc(v) THEN MaxCalc(v) ELSE m) ELSE m

\* EdgeBuilderT::AddEdge
AddEdge(pol, m, other) ==
    IF pol = "max" THEN (IF m < other THEN other ELSE m) ELSE m

\* EdgeBuilderT::StoreValue
StoreValue(pol, m) == IF pol = "max" THEN <<m % 256>> ELSE <<>>

\* width in bytes of a stored edge value
EdgeValueSize(pol) == IF pol = "max" THEN 1 ELSE 0

----------------------------------------------------------------------------
(* ChildInfo and NodeInfo *)

\* ChildInfo with the leaf flag always set
ChildInfo_AlwaysLeaf(isLeaf, size, c) ==
    [isLeaf |-> TRUE, size |-> size, edge |-> <<c>>, edgeValue |-> <<>>]

\* ChildInfo with m_edge left empty
ChildInfo_EmptyEdge(isLeaf, size, c) ==
    [isLeaf |-> isLeaf, size |-> size, edge |-> <<>>, edgeValue |-> <<>>]

\* ChildInfo(isLeaf, size, c)
ChildInfo(isLeaf, size, c) ==
    [isLeaf |-> isLeaf, size |-> size, edge |-> <<c>>, edgeValue |-> <<>>]

\* NodeInfo without the position of the sink
NodeInfo_NoPos(pos, c) ==
    [begPos |-> 0, char |-> c, children |-> <<>>, valueList |-> <<>>, value |-> 0]

\* NodeInfo(pos, trieChar, edgeBuilder)
NodeInfo(pos, c) ==
    [begPos |-> pos, char |-> c, children |-> <<>>, valueList |-> <<>>, value |-> 0]

----------------------------------------------------------------------------
(* builder::WriteNode *)

MaxValueCount == 4
MaxChildCount == 64
MaxEdgeLen == 65

\* line 70: the ceiling of the edge size, 100000 in the source; here the
\* first size above the longest edge, so that a key can be as long as it
EdgeSizeCeiling == MaxEdgeLen + 1

\* the CHECKs of lines 69-70 on every edge
EdgesOk(children) ==
    \A i \in 1..Len(children) :
        Len(children[i].edge) # 0 /\ Len(children[i].edge) < EdgeSizeCeiling

RECURSIVE Concat(_, _, _)
\* the pieces p[lo], ..., p[hi] one after the other, as the sink receives them
Concat(p, lo, hi) ==
    IF lo > hi THEN <<>>
    ELSE IF lo = hi THEN p[lo]
    ELSE LET mid == (lo + hi) \div 2
         IN  Concat(p, lo, mid) \o Concat(p, mid + 1, hi)

\* EdgeChars without the update of baseChar of line 94
EdgeChars_FromBase(baseChar, edge) ==
    Concat([i \in 1..Len(edge) |-> VarInt(edge[i] - baseChar)], 1, Len(edge))

\* lines 91-95: every character as a signed varint delta from baseChar, which
\* is the argument at i = 0 and edge[i-1] afterwards (line 94)
EdgeChars(baseChar, edge) ==
    Concat([i \in 1..Len(edge) |->
                VarInt(edge[i] - (IF i = 1 THEN baseChar ELSE edge[i - 1]))],
           1, Len(edge))

\* WriteChild with the short edge taken for every one-character edge
WriteChild_ShortByLength(baseChar, child, isLast) ==
    LET header0  == IF child.isLeaf THEN 128 ELSE 0
        edge     == child.edge
        edgeSize == Len(edge)
        diff0    == ZigZagEncode(edge[1] - baseChar)
        label    ==
            IF edgeSize = 1
            THEN <<(header0 + 64 + diff0) % 256>>
            ELSE (IF edgeSize - 1 < 63
                  THEN <<header0 + (edgeSize - 1)>>
                  ELSE <<header0 + 63>> \o VarUint(edgeSize - 1))
                 \o EdgeChars(baseChar, edge)
    IN  label \o child.edgeValue \o (IF isLast THEN <<>> ELSE VarUint(child.size))

\* WriteChild with the size written for the last child too
WriteChild_AlwaysSize(baseChar, child, isLast) ==
    LET header0  == IF child.isLeaf THEN 128 ELSE 0
        edge     == child.edge
        edgeSize == Len(edge)
        diff0    == ZigZagEncode(edge[1] - baseChar)
        label    ==
            IF edgeSize = 1 /\ diff0 <= 63
            THEN <<header0 + 64 + diff0>>
            ELSE (IF edgeSize - 1 < 63
                  THEN <<header0 + (edgeSize - 1)>>
                  ELSE <<header0 + 63>> \o VarUint(edgeSize - 1))
                 \o EdgeChars(baseChar, edge)
    IN  label \o child.edgeValue \o VarUint(child.size)

\* lines 66-102: one child descriptor
WriteChild(baseChar, child, isLast) ==
    LET header0  == IF child.isLeaf THEN 128 ELSE 0
        edge     == child.edge
        edgeSize == Len(edge)
        diff0    == ZigZagEncode(edge[1] - baseChar)
        label    ==
            IF edgeSize = 1 /\ diff0 <= 63
            THEN <<header0 + 64 + diff0>>
            ELSE (IF edgeSize - 1 < 63
                  THEN <<header0 + (edgeSize - 1)>>
                  ELSE <<header0 + 63>> \o VarUint(edgeSize - 1))
                 \o EdgeChars(baseChar, edge)
    IN  label \o child.edgeValue \o (IF isLast THEN <<>> ELSE VarUint(child.size))

\* BaseCharAt with baseChar left at the last character of the edge (line 97
\* missing)
BaseCharAt_LastChar(baseChar, children, i) ==
    IF i = 1 THEN baseChar ELSE Last(children[i - 1].edge)

\* line 97: the value of baseChar when the loop reaches child i: the argument
\* for the first child, edge[0] of the child written before it afterwards
BaseCharAt(baseChar, children, i) ==
    IF i = 1 THEN baseChar ELSE children[i - 1].edge[1]

\* lines 64-103: the loop over the children
WriteChildren(baseChar, children) ==
    Concat([i \in 1..Len(children) |->
                WriteChild(BaseCharAt(baseChar, children, i), children[i],
                           i = Len(children))],
           1, Len(children))

\* WriteNode without the leaf case of lines 49-54
WriteNode_NoLeaf(baseChar, valueList, children, isRoot) ==
    LET childCount == Len(children)
        valueCount == Len(valueList)
        header     == (Min(valueCount, 3) * 64 + Min(childCount, 63)) % 256
    IN  <<header>>
        \o (IF valueCount >= 3 THEN VarUint(valueCount) ELSE <<>>)
        \o (IF childCount >= 63 THEN VarUint(childCount) ELSE <<>>)
        \o Dump(valueList)
        \o WriteChildren(baseChar, children)

\* WriteNode with the child count escaped above 63 only
WriteNode_EscapeAbove(baseChar, valueList, children, isRoot) ==
    IF children = <<>> /\ ~isRoot
    THEN Dump(valueList)
    ELSE LET childCount == Len(children)
             valueCount == Len(valueList)
             header     == (Min(valueCount, 3) * 64 + Min(childCount, 63)) % 256
         IN  <<header>>
             \o (IF valueCount >= 3 THEN VarUint(valueCount) ELSE <<>>)
             \o (IF childCount > 63 THEN VarUint(childCount) ELSE <<>>)
             \o Dump(valueList)
             \o WriteChildren(baseChar, children)

\* WriteNode without the isRoot test of line 49
WriteNode_NoRootFlag(baseChar, valueList, children, isRoot) ==
    IF children = <<>>
    THEN Dump(valueList)
    ELSE LET childCount == Len(children)
             valueCount == Len(valueList)
             header     == (Min(valueCount, 3) * 64 + Min(childCount, 63)) % 256
         IN  <<header>>
             \o (IF valueCount >= 3 THEN VarUint(valueCount) ELSE <<>>)
             \o (IF childCount >= 63 THEN VarUint(childCount) ELSE <<>>)
             \o Dump(valueList)
             \o WriteChildren(baseChar, children)

\* builder::WriteNode; children in the order begChild..endChild
WriteNode(baseChar, valueList, children, isRoot) ==
    IF children = <<>> /\ ~isRoot
    THEN Dump(valueList)
    ELSE LET childCount == Len(children)
             valueCount == Len(valueList)
             header     == (Min(valueCount, 3) * 64 + Min(childCount, 63)) % 256
         IN  <<header>>
             \o (IF valueCount >= 3 THEN VarUint(valueCount) ELSE <<>>)
             \o (IF childCount >= 63 THEN VarUint(childCount) ELSE <<>>)
             \o Dump(valueList)
             \o WriteChildren(baseChar, children)

\* the record of one WriteNode call
WriteNodeCall(baseChar, valueList, children, isRoot) ==
    [called    |-> TRUE,
     baseChar  |-> baseChar,
     valueList |-> valueList,
     children  |-> children,
     isRoot    |-> isRoot,
     ok        |-> EdgesOk(children),
     out       |-> IF EdgesOk(children)
                   THEN WriteNode(baseChar, valueList, children, isRoot)
                   ELSE <<>>]

NoCall ==
    [called |-> FALSE, baseChar |-> 0, valueList |-> <<>>, children |-> <<>>,
     isRoot |-> FALSE, ok |-> TRUE, out |-> <<>>]

\* WriteNodeReverse without the reverse of line 151
WriteNodeReverse_NotReversed(baseChar, node, isRoot) ==
    LET call == WriteNodeCall(baseChar, node.valueList, Reverse(node.children), isRoot)
    IN  [call |-> call, bytes |-> call.out]

\* WriteNodeReverse with the children from begin() to end()
WriteNodeReverse_ChildrenForward(baseChar, node, isRoot) ==
    LET call == WriteNodeCall(baseChar, node.valueList, node.children, isRoot)
    IN  [call |-> call, bytes |-> Reverse(call.out)]

\* WriteNodeReverse with the content written to the sink twice
WriteNodeReverse_WritesTwice(baseChar, node, isRoot) ==
    LET call == WriteNodeCall(baseChar, node.valueList, Reverse(node.children), isRoot)
    IN  [call |-> call, bytes |-> Reverse(call.out) \o Reverse(call.out)]

\* builder::WriteNodeReverse: the children reversed, the output reversed
WriteNodeReverse(baseChar, node, isRoot) ==
    LET call == WriteNodeCall(baseChar, node.valueList, Reverse(node.children), isRoot)
    IN  [call |-> call, bytes |-> Reverse(call.out)]

----------------------------------------------------------------------------
(* trie::Build *)

Keys == SeqsUpTo(Alphabet, MaxKeyLen)

Elements == [key : Keys, value : Values]

\* a default-constructed ElementT
NoElement == [key |-> <<>>, value |-> 0]

\* IsDuplicate with only the keys compared
IsDuplicate_ByKey(x, notFirst, prev) == notFirst /\ x.key = prev.key

\* line 249: it != beg && e == prevE
IsDuplicate(x, notFirst, prev) == notFirst /\ x = prev

\* KeyLess that never finds a key out of order
KeyLess_Never(a, b) == FALSE

RECURSIVE KeyLess_OrEqual(_, _)
\* KeyLess with the comparison turned round: !(prevKey < key)
KeyLess_OrEqual(a, b) ==
    IF a = <<>> THEN TRUE
    ELSE IF b = <<>> THEN FALSE
    ELSE IF a[1] # b[1] THEN a[1] < b[1]
    ELSE KeyLess_OrEqual(Tail(a), Tail(b))

RECURSIVE KeyLess(_, _)
\* operator< of buffer_vector: lexicographical
KeyLess(a, b) ==
    IF b = <<>> THEN FALSE
    ELSE IF a = <<>> THEN TRUE
    ELSE IF a[1] # b[1] THEN a[1] < b[1]
    ELSE KeyLess(Tail(a), Tail(b))

\* NodesToPop without the frame of the root
NodesToPop_NoRoot(size, nCommon) == size - nCommon

\* line 259: nodes.size() - nCommon - 1, the root is also a common node
NodesToPop(size, nCommon) == size - nCommon - 1

\* ShouldFold with the value list not looked at
ShouldFold_AnyValues(node) == Len(node.children) <= 1

\* line 165: the frame has no values and at most one child
ShouldFold(node) == node.valueList = <<>> /\ Len(node.children) <= 1

\* FoldedEdge without the append of line 170
FoldedEdge_NoAppend(node, child) ==
    ChildInfo(child.isLeaf, child.size, node.char)

\* FoldedEdge with the folded frame counted as one byte
FoldedEdge_SizePlusOne(node, child) ==
    [ChildInfo(child.isLeaf, child.size + 1, node.char)
        EXCEPT !.edge = <<node.char>> \o child.edge]

\* lines 168-170: the edge of the only child, with the frame's character
\* put in front
FoldedEdge(node, child) ==
    [ChildInfo(child.isLeaf, child.size, node.char)
        EXCEPT !.edge = <<node.char>> \o child.edge]

\* SubtreeSize without the position the frame was pushed at
SubtreeSize_Absolute(pos, node) == pos

\* SubtreeSize with one byte too many
SubtreeSize_PlusOne(pos, node) == pos - node.begPos + 1

\* line 176: sink.Pos() - node.m_begPos
SubtreeSize(pos, node) == pos - node.begPos

\* CommonPrefix without the comparison of the characters
CommonPrefix_MinLen(key, prev, n) == Min(Len(key), Len(prev))

RECURSIVE CommonPrefix(_, _, _)
\* lines 255-257
CommonPrefix(key, prev, n) ==
    IF n < Min(Len(key), Len(prev)) /\ prev[n + 1] = key[n + 1]
    THEN CommonPrefix(key, prev, n + 1)
    ELSE n

Init ==
    /\ pc = "loop"
    /\ phase = "entry"
    /\ nodes = <<NodeInfo(0, DEFAULT_CHAR)>>
    /\ sink = <<>>
    /\ prevKey = <<>>
    /\ prevE = NoElement
    /\ e = NoElement
    /\ nodesToPop = 0
    /\ input = <<>>
    /\ policy \in {"empty", "max"}
    /\ wn = NoCall

\* lines 248-250: an exact duplicate of the previous entry is skipped
SkipDuplicateOver(elements) ==
    /\ pc = "loop"
    /\ Len(input) < MaxEntries
    /\ \E x \in elements :
        /\ IsDuplicate(x, Len(input) > 0, prevE)
        /\ input' = Append(input, x)
        /\ e' = x
    /\ UNCHANGED <<pc, phase, nodes, sink, prevKey, prevE, nodesToPop, policy, wn>>

\* line 254: CHECK(!(key < prevKey))
CheckFailsOver(elements) ==
    /\ pc = "loop"
    /\ Len(input) < MaxEntries
    /\ \E x \in elements :
        /\ ~IsDuplicate(x, Len(input) > 0, prevE)
        /\ KeyLess(x.key, prevKey)
        /\ input' = Append(input, x)
        /\ e' = x
    /\ pc' = "failed"
    /\ UNCHANGED <<phase, nodes, sink, prevKey, prevE, nodesToPop, policy, wn>>

\* lines 248-259: the entry is taken and PopNodes is entered
BeginEntryOver(elements) ==
    /\ pc = "loop"
    /\ Len(input) < MaxEntries
    /\ \E x \in elements :
        /\ ~IsDuplicate(x, Len(input) > 0, prevE)
        /\ ~KeyLess(x.key, prevKey)
        /\ input' = Append(input, x)
        /\ e' = x
        /\ nodesToPop' = NodesToPop(Len(nodes), CommonPrefix(x.key, prevKey, 0))
    /\ pc' = "pop"
    /\ phase' = "entry"
    /\ UNCHANGED <<nodes, sink, prevKey, prevE, policy, wn>>

\* PopInto with the new edge put in front of the others
PopInto_InFront(prevNode, node, child) ==
    [prevNode EXCEPT
        !.children = <<[child EXCEPT !.edgeValue = StoreValue(policy, node.value)]>>
                        \o prevNode.children,
        !.value = AddEdge(policy, prevNode.value, node.value)]

\* lines 180-184: the end of one PopNodes iteration, given the new edge
PopInto(prevNode, node, child) ==
    [prevNode EXCEPT
        !.children = Append(prevNode.children,
                            [child EXCEPT !.edgeValue = StoreValue(policy, node.value)]),
        !.value = AddEdge(policy, prevNode.value, node.value)]

\* lines 165-171 and 180-184: the frame is folded into its parent
FoldNode ==
    /\ pc = "pop"
    /\ nodesToPop > 0
    /\ LET node     == nodes[Len(nodes)]
           prevNode == nodes[Len(nodes) - 1]
       IN  /\ ShouldFold(node)
           /\ IF Len(node.children) = 1
              THEN LET edge == FoldedEdge(node, node.children[1])
                   IN  /\ nodes' = [Front(nodes) EXCEPT
                                      ![Len(nodes) - 1] = PopInto(prevNode, node, edge)]
                       /\ nodesToPop' = nodesToPop - 1
                       /\ pc' = pc
              ELSE \* ASSERT_EQUAL(node.m_children.size(), 1) of line 167
                   /\ pc' = "failed"
                   /\ UNCHANGED <<nodes, nodesToPop>>
    /\ UNCHANGED <<phase, sink, prevKey, prevE, e, input, policy, wn>>

\* lines 172-184: the frame is written as a node
WriteAndPop ==
    /\ pc = "pop"
    /\ nodesToPop > 0
    /\ LET node     == nodes[Len(nodes)]
           prevNode == nodes[Len(nodes) - 1]
           w        == WriteNodeReverse(node.char, node, FALSE)
       IN  /\ ~ShouldFold(node)
           /\ wn' = w.call
           /\ IF w.call.ok
              THEN LET newSink == sink \o w.bytes
                       edge == ChildInfo(node.children = <<>>,
                                         SubtreeSize(Len(newSink), node), node.char)
                   IN  /\ sink' = newSink
                       /\ nodes' = [Front(nodes) EXCEPT
                                      ![Len(nodes) - 1] = PopInto(prevNode, node, edge)]
                       /\ nodesToPop' = nodesToPop - 1
                       /\ pc' = pc
              ELSE /\ pc' = "failed"
                   /\ UNCHANGED <<sink, nodes, nodesToPop>>
    /\ UNCHANGED <<phase, prevKey, prevE, e, input, policy>>

\* lines 261-269: the frames of the new suffix, the value, the swap
Extend ==
    /\ pc = "pop"
    /\ phase = "entry"
    /\ nodesToPop <= 0
    /\ LET key     == e.key
           nCommon == CommonPrefix(key, prevKey, 0)
           pos     == Len(sink)
           pushed  == nodes \o [i \in 1..(Len(key) - nCommon) |->
                                   NodeInfo(pos, key[nCommon + i])]
           back    == pushed[Len(pushed)]
       IN  nodes' = [pushed EXCEPT ![Len(pushed)] =
                        [back EXCEPT
                            !.valueList = Append(back.valueList, e.value),
                            !.value = AddValue(policy, back.value, e.value)]]
    /\ prevKey' = e.key
    /\ prevE' = e
    /\ pc' = "loop"
    /\ UNCHANGED <<phase, sink, e, nodesToPop, input, policy, wn>>

\* lines 246 and 273: the input is exhausted, the last PopNodes is entered
EndInput ==
    /\ pc = "loop"
    /\ nodesToPop' = Len(nodes) - 1
    /\ pc' = "pop"
    /\ phase' = "final"
    /\ UNCHANGED <<nodes, sink, prevKey, prevE, e, input, policy, wn>>

\* line 276: the root is written
WriteRoot ==
    /\ pc = "pop"
    /\ phase = "final"
    /\ nodesToPop <= 0
    /\ LET w == WriteNodeReverse(DEFAULT_CHAR, nodes[Len(nodes)], TRUE)
       IN  /\ wn' = w.call
           /\ IF w.call.ok
              THEN /\ sink' = sink \o w.bytes
                   /\ pc' = "done"
              ELSE /\ pc' = "failed"
                   /\ UNCHANGED sink
    /\ UNCHANGED <<phase, nodes, prevKey, prevE, e, nodesToPop, input, policy>>

\* the loop of Build over the entries of Elements
SkipDuplicate == SkipDuplicateOver(Elements)

CheckFails == CheckFailsOver(Elements)

BeginEntry == BeginEntryOver(Elements)

Next ==
    \/ SkipDuplicate
    \/ CheckFails
    \/ BeginEntry
    \/ FoldNode
    \/ WriteAndPop
    \/ Extend
    \/ EndInput
    \/ WriteRoot

Spec == Init /\ [][Next]_vars

\* Build over keys that are as long as the ceiling of the edge size allows,
\* and one character longer
LongKeys == {[i \in 1..n |-> 1] : n \in {1, EdgeSizeCeiling - 1, EdgeSizeCeiling}}

LongElements == [key : LongKeys, value : Values]

LongSkipDuplicate == SkipDuplicateOver(LongElements)

LongCheckFails == CheckFailsOver(LongElements)

LongBeginEntry == BeginEntryOver(LongElements)

NextLongKeys ==
    \/ LongSkipDuplicate
    \/ LongCheckFails
    \/ LongBeginEntry
    \/ FoldNode
    \/ WriteAndPop
    \/ Extend
    \/ EndInput
    \/ WriteRoot

SpecLongKeys == Init /\ [][NextLongKeys]_vars

----------------------------------------------------------------------------
(* WriteNode as a function of its arguments: the inputs are drawn from     *)
(* bounded sets that reach the escaped counts (3 values, 63 children,      *)
(* 64 characters on an edge) and multi-byte varints.                       *)

\* most values, children and edge characters WriteNode is applied to

\* an edge of n characters that starts with c and then alternates
LongEdge(c, n) == [i \in 1..n |-> IF i = 1 THEN c ELSE IF i % 2 = 0 THEN 70 ELSE 2]

\* the edge labels of the drawn children
EdgeTemplates ==
    <<  <<1>>, <<70>>, <<2, 1>>, <<2>>, LongEdge(1, MaxEdgeLen - 2),
        <<70, 1, 2>>, LongEdge(2, MaxEdgeLen - 1), <<1>>, LongEdge(70, MaxEdgeLen) >>

\* the k-th drawn child of a call with the given seed
TemplateChild(seed, k) ==
    LET n == ((seed + k) % Len(EdgeTemplates)) + 1
    IN  [isLeaf    |-> (seed + k) % 2 = 0,
         size      |-> IF (seed + k) % 3 = 0 THEN 300 ELSE k,
         edge      |-> EdgeTemplates[n],
         edgeValue |-> IF policy = "max" THEN <<(37 * (seed + k)) % 256>> ELSE <<>>]

ChildCounts == {0, 1, 2, 3, MaxChildCount - 2, MaxChildCount - 1, MaxChildCount}

\* the base characters of the drawn calls: 33 and 38 put the first delta on
\* the two sides of the short edge limit (1 - 33 = -32, 70 - 38 = 32)
BaseChars == {DEFAULT_CHAR, 33, 38, 70}

\* WriteNode applied to drawn arguments
ApplyWriteNode ==
    /\ pc = "loop" /\ input = <<>>
    /\ ~wn.called
    /\ \E baseChar \in BaseChars,
          valueCount \in 0..MaxValueCount, childCount \in ChildCounts,
          seed \in 0..(Len(EdgeTemplates) - 1), isRoot \in BOOLEAN :
        \* the long child lists are drawn for one seed and one base only
        /\ childCount > 3 => (seed = 0 /\ baseChar = DEFAULT_CHAR)
        /\ wn' = WriteNodeCall(baseChar,
                            [i \in 1..valueCount |-> IF i % 2 = 1 THEN -1 ELSE 2],
                            [k \in 1..childCount |-> TemplateChild(seed, k)],
                            isRoot)
    /\ UNCHANGED <<pc, phase, nodes, sink, prevKey, prevE, e, nodesToPop, input, policy>>

SpecWriteNode == Init /\ [][ApplyWriteNode]_vars

----------------------------------------------------------------------------
(* A reader of the format: it knows the layout of the comment of lines     *)
(* 10-39 (headers, escaped counts, varints, edge values of a fixed width,  *)
(* a size on every descriptor but the last) and nothing of the writer.     *)
(* It is total: a position outside the buffer reads as 0.                  *)

At(s, p) == IF p \in 1..Len(s) THEN s[p] ELSE 0

\* the bytes s[from..to], clipped to the buffer
Slice(s, from, to) ==
    LET hi == Min(to, Len(s))
    IN  IF from < 1 \/ from > hi THEN <<>> ELSE SubSeq(s, from, hi)

RECURSIVE ReadVarUintN(_, _, _)
\* an unsigned varint of at most n groups at position p: its value and the
\* position after it
ReadVarUintN(s, p, n) ==
    LET b == At(s, p)
    IN  IF b < 128 \/ n <= 1
        THEN [value |-> b % 128, next |-> p + 1]
        ELSE LET r == ReadVarUintN(s, p + 1, n - 1)
             IN  [value |-> (b - 128) + 128 * r.value, next |-> r.next]

\* counts, sizes and deltas of the model stay below 2^28: four groups
ReadVarUint(s, p) == ReadVarUintN(s, p, 4)

ZigZagDecode(u) == IF u % 2 = 0 THEN u \div 2 ELSE -((u + 1) \div 2)

ReadVarInt(s, p) ==
    LET r == ReadVarUint(s, p)
    IN  [value |-> ZigZagDecode(r.value), next |-> r.next]

\* a value from its byte
ValueOfByte(b) == IF b >= 128 THEN b - 256 ELSE b

ReadValues(bytes) == [i \in 1..Len(bytes) |-> ValueOfByte(bytes[i])]

RECURSIVE ReadChars(_, _, _, _)
\* the characters lo..hi of an edge, from the state st = [pos, base, edge]
ReadChars(s, st, lo, hi) ==
    IF lo > hi THEN st
    ELSE IF lo = hi
    THEN LET d == ReadVarInt(s, st.pos)
         IN  [pos  |-> d.next,
              base |-> st.base + d.value,
              edge |-> Append(st.edge, st.base + d.value)]
    ELSE LET mid  == (lo + hi) \div 2
             left == ReadChars(s, st, lo, mid)
         IN  \* the left half is read before the right half is entered
             IF left.pos > 0 THEN ReadChars(s, left, mid + 1, hi) ELSE left

\* one child descriptor at position p, read against baseChar
ReadChild(s, p, baseChar, isLast, evw) ==
    LET h        == At(s, p)
        short    == (h % 128) >= 64
        low      == h % 64
        lenField == IF ~short /\ low = 63
                    THEN ReadVarUint(s, p + 1)
                    ELSE [value |-> low, next |-> p + 1]
        edgeLen  == IF short THEN 1 ELSE lenField.value + 1
        chars    == IF short
                    THEN [pos |-> p + 1, base |-> 0,
                          edge |-> <<baseChar + ZigZagDecode(low)>>]
                    ELSE ReadChars(s, [pos |-> lenField.next, base |-> baseChar,
                                       edge |-> <<>>],
                                   1, Min(edgeLen, Len(s) + 1 - p))
        size     == IF isLast
                    THEN [value |-> -1, next |-> chars.pos + evw]
                    ELSE ReadVarUint(s, chars.pos + evw)
    IN  [start      |-> p,
         header     |-> h,
         isLeaf     |-> h >= 128,
         short      |-> short,
         low        |-> low,
         hasLen     |-> lenField.next > p + 1,
         edgeLen    |-> edgeLen,
         charsStart |-> lenField.next,
         charsEnd   |-> chars.pos,
         edge       |-> chars.edge,
         edgeValue  |-> Slice(s, chars.pos, chars.pos + evw - 1),
         hasSize    |-> ~isLast,
         size       |-> size.value,
         next       |-> size.next]

RECURSIVE ReadChildren(_, _, _, _, _, _)
\* the descriptors lo..hi of a node with n children, from st = [pos, base, list];
\* the base of a descriptor is the first character of the one before it
ReadChildren(s, st, lo, hi, n, evw) ==
    IF lo > hi THEN st
    ELSE IF lo = hi
    THEN LET c == ReadChild(s, st.pos, st.base, lo = n, evw)
         IN  [pos  |-> c.next,
              base |-> IF c.edge = <<>> THEN st.base ELSE c.edge[1],
              list |-> Append(st.list, c)]
    ELSE LET mid  == (lo + hi) \div 2
             left == ReadChildren(s, st, lo, mid, n, evw)
         IN  \* the left half is read before the right half is entered
             IF left.pos > 0 THEN ReadChildren(s, left, mid + 1, hi, n, evw) ELSE left

\* an internal node at position p, read against baseChar
ReadNode(s, p, baseChar, evw) ==
    LET h          == At(s, p)
        vh         == h \div 64
        ch         == h % 64
        valueCount == IF vh = 3 THEN ReadVarUint(s, p + 1)
                      ELSE [value |-> vh, next |-> p + 1]
        childCount == IF ch = 63 THEN ReadVarUint(s, valueCount.next)
                      ELSE [value |-> ch, next |-> valueCount.next]
        valuesEnd  == childCount.next + valueCount.value - 1
        \* every descriptor takes a byte: no more descriptors than bytes left
        n          == IF childCount.value <= Len(s) - valuesEnd
                      THEN childCount.value ELSE 0
        kids       == ReadChildren(s, [pos |-> valuesEnd + 1, base |-> baseChar,
                                       list |-> <<>>], 1, n, n, evw)
    IN  [header        |-> h,
         hasValueCount |-> valueCount.next > p + 1,
         valueCount    |-> valueCount.value,
         hasChildCount |-> childCount.next > valueCount.next,
         childCount    |-> childCount.value,
         valuesStart   |-> childCount.next,
         values        |-> ReadValues(Slice(s, childCount.next, valuesEnd)),
         children      |-> kids.list,
         next          |-> kids.pos]

RECURSIVE SizesBefore(_, _)
\* the sizes of the subtrees of the descriptors before the j-th
SizesBefore(children, j) ==
    IF j <= 1 THEN 0 ELSE children[j - 1].size + SizesBefore(children, j - 1)

RECURSIVE ReadSubtree(_, _, _, _, _, _, _)
\* the (key, value list) pairs of the subtree in blob[from..to], reached by
\* the key prefix: a leaf is its value bytes, an internal node is followed
\* by the subtrees of its descriptors in the order of the descriptors, the
\* last of them taking what is left
ReadSubtree(blob, from, to, isLeaf, baseChar, prefix, evw) ==
    IF from > to THEN {}
    ELSE IF isLeaf THEN {<<prefix, ReadValues(Slice(blob, from, to))>>}
    ELSE LET node == ReadNode(Slice(blob, 1, to), from, baseChar, evw)
             n    == Len(node.children)
             beg(j) == node.next + SizesBefore(node.children, j)
             end(j) == IF j = n THEN to ELSE beg(j) + node.children[j].size - 1
         IN  (IF node.values = <<>> THEN {} ELSE {<<prefix, node.values>>})
             \cup UNION { ReadSubtree(blob, beg(j), end(j), node.children[j].isLeaf,
                                      Last(node.children[j].edge),
                                      prefix \o node.children[j].edge, evw)
                          : j \in {i \in 1..n : node.children[i].edge # <<>>} }

\* the mapping a reader recovers from the reversed output
ReadTrie(blob, evw) ==
    ReadSubtree(blob, 1, Len(blob), FALSE, DEFAULT_CHAR, <<>>, evw)

----------------------------------------------------------------------------
(* What the claims speak of, stated over the input and the output only *)

\* lexicographical order of keys
LexLess(a, b) ==
    \E n \in 0..Min(Len(a), Len(b)) :
        /\ \A j \in 1..n : a[j] = b[j]
        /\ \/ n = Len(a) /\ n < Len(b)
           \/ n < Len(a) /\ n < Len(b) /\ a[n + 1] < b[n + 1]

\* the entries of inp that are not equal to the entry right before them
Kept(inp) == {i \in 1..Len(inp) : i = 1 \/ inp[i] # inp[i - 1]}

RECURSIVE ValuesOfKey(_, _, _)
\* the values of the kept entries 1..n of inp that carry the key k, in
\* arrival order
ValuesOfKey(inp, k, n) ==
    IF n = 0 THEN <<>>
    ELSE IF n \in Kept(inp) /\ inp[n].key = k
         THEN Append(ValuesOfKey(inp, k, n - 1), inp[n].value)
         ELSE ValuesOfKey(inp, k, n - 1)

\* the mapping the input stands for
InputMapping(inp) ==
    {<<inp[i].key, ValuesOfKey(inp, inp[i].key, Len(inp))>> : i \in 1..Len(inp)}

NonEmptyKeys(inp) == \A i \in 1..Len(inp) : inp[i].key # <<>>

\* the step takes the next entry from the iterator
TakesEntry == Len(input') = Len(input) + 1

\* the key of the entry processed before the one being taken
KeyBefore == IF input = <<>> THEN <<>> ELSE Last(input).key

----------------------------------------------------------------------------
(* C1 .. C4: Build *)

\* C1: round trip. When Build has finished on an input of non-empty keys
\* (ascending, or Build does not finish), a reader of the format recovers
\* from the reversed output exactly the mapping of the input: every key with
\* its values in arrival order, consecutive exact duplicates collapsed, and
\* no other key.
C1_RoundTrip ==
    (pc = "done" /\ NonEmptyKeys(input))
        => ReadTrie(Reverse(sink), EdgeValueSize(policy)) = InputMapping(input)

\* C1 witness: a finished build of three entries, a key with a value that is
\* a prefix of a key with two values
C1_Witness ==
    /\ pc = "done"
    /\ Len(input) = 3
    /\ input[1].key = <<1>>
    /\ input[2].key = <<1, 70>> /\ input[3].key = <<1, 70>>
    /\ input[2].value # input[3].value
    /\ ReadTrie(Reverse(sink), EdgeValueSize(policy)) = InputMapping(input)

\* C2: sortedness. A step that takes a non-skipped entry whose key is less
\* than the key processed before it fails and leaves the stack and the sink
\* alone; a step that takes any other entry does not fail, and no step that
\* takes no entry fails.
C2_Sortedness ==
    [][ /\ pc # "failed"
        /\ TakesEntry =>
             LET x == Last(input')
             IN  IF ~(input # <<>> /\ x = Last(input)) /\ LexLess(x.key, KeyBefore)
                 THEN pc' = "failed" /\ nodes' = nodes /\ sink' = sink
                 ELSE pc' # "failed"
        /\ ~TakesEntry => pc' # "failed" ]_vars

\* C2 witness: the check has fired on the third entry, after a node was written
C2_Witness ==
    /\ pc = "failed"
    /\ Len(input) = 3
    /\ sink # <<>>
    /\ LexLess(input[3].key, input[2].key)

\* C3: duplicates. A step that takes an entry equal to the entry before it
\* changes neither the stack (value lists and aggregation states included)
\* nor the sink; and whenever Build is between two entries, the value list of
\* the top frame holds the values of all kept entries with the last key, in
\* arrival order.
C3_Duplicates ==
    [][ /\ (TakesEntry /\ input # <<>> /\ Last(input') = Last(input))
            => (nodes' = nodes /\ sink' = sink /\ pc' = "loop")
        /\ (pc' = "loop" /\ input' # <<>>)
            => Last(nodes').valueList
                 = ValuesOfKey(input', Last(input').key, Len(input')) ]_vars

\* C3 witness: a duplicate was skipped between two different values of one key
C3_Witness ==
    /\ pc = "loop"
    /\ Len(input) = 3
    /\ input[1] = input[2]
    /\ input[3].key = input[2].key /\ input[3].value # input[2].value
    /\ Len(Last(nodes).valueList) = 2

\* the header byte of an internal node
HeaderOf(valueCount, childCount) == Min(valueCount, 3) * 64 + Min(childCount, 63)

\* C4: the root. The bottom frame is the root in every state and a frame is
\* popped only above it; WriteNode is called for the root exactly when Build
\* finishes; the root's bytes are the end of the sink and start (read
\* backwards) with the header byte, children or not; an empty input gives
\* the single byte 0.
C4_Root ==
    /\ Len(nodes) >= 1
    /\ nodes[1].char = DEFAULT_CHAR /\ nodes[1].begPos = 0
    /\ (pc = "pop" /\ nodesToPop > 0) => Len(nodes) > nodesToPop
    /\ (wn.called /\ wn.isRoot) <=> pc = "done"
    /\ pc = "done" =>
        /\ Len(nodes) = 1
        /\ wn.valueList = nodes[1].valueList
        /\ wn.children = Reverse(nodes[1].children)
        /\ Len(wn.out) >= 1
        /\ Len(sink) >= Len(wn.out)
        /\ Reverse(SubSeq(sink, Len(sink) - Len(wn.out) + 1, Len(sink))) = wn.out
        /\ Last(sink) = HeaderOf(Len(nodes[1].valueList), Len(nodes[1].children))
        /\ (input = <<>> => sink = <<0>>)

\* C4 witness: Build has finished on the empty input
C4_Witness == pc = "done" /\ input = <<>> /\ sink = <<0>>

----------------------------------------------------------------------------
(* C5 .. C10: the node format, stated over the last call of WriteNode *)

\* the call wrote an internal node
WnInternal == wn.called /\ wn.ok /\ (wn.children # <<>> \/ wn.isRoot)

\* the output of the call as a reader sees it
WnRead == ReadNode(wn.out, 1, wn.baseChar, EdgeValueSize(policy))

\* the reader found the descriptors of the call, one after the other, up to
\* the end of the output
WnAligned(r) ==
    /\ Len(r.children) = Len(wn.children)
    /\ r.next = Len(wn.out) + 1
    /\ \A j \in 1..Len(r.children) :
          r.children[j].start = IF j = 1 THEN r.valuesStart + Len(wn.valueList)
                                ELSE r.children[j - 1].next

\* the base character the claims give the j-th descriptor
RunningBase(j) == IF j = 1 THEN wn.baseChar ELSE wn.children[j - 1].edge[1]

\* the first-character delta that the j-th descriptor carries
FirstDelta(out, d) ==
    IF d.short THEN ZigZagDecode(d.low) ELSE ReadVarInt(out, d.charsStart).value

\* C5: a call with no children and isRoot = false writes one byte per value,
\* the bytes of the values in order, and nothing else.
C5_LeafFormat ==
    (wn.called /\ wn.ok /\ wn.children = <<>> /\ ~wn.isRoot) =>
        /\ Len(wn.out) = Len(wn.valueList)
        /\ \A i \in 1..Len(wn.out) : wn.out[i] = wn.valueList[i] % 256

\* C5 witness: a leaf of three values was written
C5_Witness ==
    /\ wn.called /\ wn.ok /\ wn.children = <<>> /\ ~wn.isRoot
    /\ Len(wn.valueList) = 3 /\ Len(wn.out) = 3

\* C6: an internal node starts with the header byte min(valueCount,3)*64 +
\* min(childCount,63), a byte; then the value count as a varint iff it is at
\* least 3; then the child count as a varint iff it is at least 63; then
\* the value bytes; then exactly childCount descriptors, which end the output.
C6_InternalHeader ==
    WnInternal =>
        LET r       == WnRead
            vc      == Len(wn.valueList)
            cc      == Len(wn.children)
            vcBytes == IF vc >= 3 THEN VarUint(vc) ELSE <<>>
            ccBytes == IF cc >= 63 THEN VarUint(cc) ELSE <<>>
            vStart  == 2 + Len(vcBytes) + Len(ccBytes)
        IN  /\ wn.out[1] = HeaderOf(vc, cc)
            /\ wn.out[1] \in 0..255
            /\ Slice(wn.out, 2, 1 + Len(vcBytes)) = vcBytes
            /\ Slice(wn.out, 2 + Len(vcBytes), vStart - 1) = ccBytes
            /\ r.hasValueCount <=> vc >= 3
            /\ r.hasChildCount <=> cc >= 63
            /\ r.valueCount = vc /\ r.childCount = cc
            /\ r.valuesStart = vStart
            /\ r.values = wn.valueList
            /\ WnAligned(r)

\* C6 witness: a node with both counts escaped
C6_Witness ==
    /\ WnInternal
    /\ Len(wn.valueList) >= 3 /\ Len(wn.children) >= 63
    /\ WnRead.hasValueCount /\ WnRead.hasChildCount

\* C7: a descriptor has bit 6 set iff its edge has one character whose
\* zigzag delta from the running base is in 0..63; then bits 0..5 are that
\* zigzag value and the edge value follows the header at once.
C7_ShortEdge ==
    WnInternal =>
        LET r == WnRead
        IN  /\ WnAligned(r)
            /\ \A j \in 1..Len(wn.children) :
                  LET d == r.children[j]
                      c == wn.children[j]
                      z == ZigZagEncode(c.edge[1] - RunningBase(j))
                  IN  /\ d.short <=> (Len(c.edge) = 1 /\ z \in 0..63)
                      /\ d.short =>
                            /\ d.low = z
                            /\ d.charsEnd = d.start + 1
                            /\ d.edgeValue = c.edgeValue

\* C7 witness: a short edge at the limit (zigzag 63) and a one-character
\* edge that is not short
C7_Witness ==
    /\ WnInternal
    /\ Len(wn.children) >= 2
    /\ WnRead.children[1].short /\ WnRead.children[1].low = 63
    /\ \E j \in 2..Len(wn.children) :
          Len(wn.children[j].edge) = 1 /\ ~WnRead.children[j].short

\* the deltas of an edge as the claims give them, as signed varints
DeltaBytes(edge, base) ==
    Concat([i \in 1..Len(edge) |->
                VarInt(edge[i] - (IF i = 1 THEN base ELSE edge[i - 1]))],
           1, Len(edge))

\* C8: a descriptor that is not short has bit 6 clear, min(edgeLength-1, 63)
\* in bits 0..5, edgeLength-1 as a varint iff it is at least 63, then
\* exactly edgeLength signed varints: the first character's delta from the
\* running base, every later character's delta from the character before.
C8_GeneralEdge ==
    WnInternal =>
        LET r == WnRead
        IN  /\ WnAligned(r)
            /\ \A j \in 1..Len(wn.children) :
                  LET d    == r.children[j]
                      c    == wn.children[j]
                      len1 == Len(c.edge) - 1
                  IN  ~d.short =>
                        /\ (d.header % 128) < 64
                        /\ d.low = Min(len1, 63)
                        /\ d.hasLen <=> len1 >= 63
                        /\ Slice(wn.out, d.start + 1, d.charsStart - 1)
                             = IF len1 >= 63 THEN VarUint(len1) ELSE <<>>
                        /\ d.edgeLen = Len(c.edge)
                        /\ Slice(wn.out, d.charsStart, d.charsEnd - 1)
                             = DeltaBytes(c.edge, RunningBase(j))
                        /\ d.edge = c.edge
                        /\ d.edgeValue = c.edgeValue

\* C8 witness: a general edge with an escaped length after another descriptor
C8_Witness ==
    /\ WnInternal
    /\ \E j \in 2..Len(wn.children) :
          /\ ~WnRead.children[j].short
          /\ WnRead.children[j].hasLen
          /\ Len(wn.children[j].edge) >= 64

C10_ChildSize ==
    WnInternal =>
        LET r == WnRead
        IN  /\ WnAligned(r)
            /\ \A j \in 1..Len(wn.children) :
                  LET d   == r.children[j]
                      c   == wn.children[j]
                      evw == EdgeValueSize(policy)
                  IN  /\ d.edgeValue = c.edgeValue
                      /\ j < Len(wn.children) =>
                            /\ d.size = c.size
                            /\ Slice(wn.out, d.charsEnd + evw, d.next - 1) = VarUint(c.size)
                      /\ j = Len(wn.children) =>
                            /\ d.next = d.charsEnd + evw
                            /\ d.next = Len(wn.out) + 1

\* C10 witness: a node with one child, and so with no size at all
C10_Witness ==
    /\ WnInternal
    /\ Len(wn.children) = 1
    /\ wn.children[1].size = 300
    /\ WnRead.next = Len(wn.out) + 1
    /\ WnRead.children[1].next = WnRead.children[1].charsEnd + EdgeValueSize(policy)

----------------------------------------------------------------------------
(* C11 .. C20: PopNodes and the stack *)

\* the step pops the top frame (one iteration of the loop of PopNodes)
PopStep == pc = "pop" /\ nodesToPop > 0

\* the sum of the recorded sizes of a list of children
SizeSum(children) == SizesBefore(children, Len(children) + 1)

\* C11: folding. A step that pops a frame does not fail; it leaves the sink
\* alone iff the frame has no values and exactly one child, and then the
\* parent gets one new edge labelled with the frame's character followed by
\* the child's label, with the child's leaf flag and size; any other frame
\* is written as a node with its own values and children, and the parent
\* gets one new edge of the frame's character alone.
C11_Folding ==
    [][ PopStep =>
          LET node   == Last(nodes)
              parent == nodes[Len(nodes) - 1]
              after  == Last(nodes')
              edge   == Last(after.children)
          IN  /\ pc' = "pop"
              /\ nodes' # nodes
              /\ Len(nodes') = Len(nodes) - 1
              /\ Front(nodes') = SubSeq(nodes, 1, Len(nodes) - 2)
              /\ Front(after.children) = parent.children
              /\ sink' = sink <=> (node.valueList = <<>> /\ Len(node.children) = 1)
              /\ sink' = sink =>
                    /\ edge.edge = <<node.char>> \o node.children[1].edge
                    /\ edge.isLeaf = node.children[1].isLeaf
                    /\ edge.size = node.children[1].size
              /\ sink' # sink =>
                    /\ (node.valueList # <<>> \/ Len(node.children) >= 2)
                    /\ wn'.valueList = node.valueList
                    /\ wn'.children = Reverse(node.children)
                    /\ ~wn'.isRoot
                    /\ sink' = sink \o Reverse(wn'.out)
                    /\ edge.edge = <<node.char>> ]_vars

\* C11 witness: a frame was folded into the root and then a node with a
\* value and a child was written
C11_Witness ==
    /\ pc = "pop" /\ phase = "final" /\ nodesToPop = 0
    /\ \E j \in 1..Len(nodes[1].children) : Len(nodes[1].children[j].edge) = 2
    /\ wn.called /\ wn.valueList # <<>> /\ wn.children # <<>>
    /\ Last(nodes[1].children).edge = <<wn.baseChar>>

\* C12: the recorded size. A step that writes a frame as a node gives the
\* new edge the frame's character alone and, as size, the sink position after
\* the write minus the position at which the frame was pushed, which is the
\* length of the node's own bytes plus the sizes of all its children; a
\* frame is pushed with the sink position of that moment and keeps it.
C12_SubtreeSize ==
    [][ /\ (PopStep /\ sink' # sink) =>
              LET node == Last(nodes)
                  edge == Last(Last(nodes').children)
              IN  /\ edge.edge = <<node.char>>
                  /\ edge.size = Len(sink') - node.begPos
                  /\ edge.size = Len(wn'.out) + SizeSum(node.children)
                  /\ Len(sink') = Len(sink) + Len(wn'.out)
        /\ \A i \in 1..Len(nodes') :
              nodes'[i].begPos = IF i <= Len(nodes) THEN nodes[i].begPos
                                 ELSE Len(sink) ]_vars

\* C12 witness: a node with two children was written after other bytes
C12_Witness ==
    /\ pc = "pop"
    /\ wn.called /\ Len(wn.children) = 2
    /\ Last(nodes).children # <<>>
    /\ Last(Last(nodes).children).edge = <<wn.baseChar>>
    /\ Last(Last(nodes).children).size = Len(wn.out) + wn.children[1].size + wn.children[2].size
    /\ Len(sink) > Last(Last(nodes).children).size

\* p is a prefix of the key k
IsPrefix(p, k) == Len(p) <= Len(k) /\ SubSeq(k, 1, Len(p)) = p

\* the key spelled by the frames 2..n of the stack
FramePath(n) == [i \in 1..(n - 1) |-> nodes[i + 1].char]

\* the projections of the values of the entries at or below the key path
ValuesBelow(inp, path) ==
    {MaxCalc(inp[i].value) : i \in {j \in 1..Len(inp) : IsPrefix(path, inp[j].key)}}

\* the greatest element of a non-empty set of integers
TrueMax(S) == CHOOSE m \in S : \A x \in S : x <= m

\* C13: the edge value. A step that pops a frame, folded or written, merges
\* the frame's aggregation value into the parent's and gives the new edge
\* exactly one serialized aggregation value, the popped frame's; with the
\* max policy that value is the greatest projection of the values at or
\* below the node the edge leads to.
C13_EdgeValue ==
    [][ (PopStep /\ pc' = "pop") =>
          LET node   == Last(nodes)
              parent == nodes[Len(nodes) - 1]
              after  == Last(nodes')
              edge   == Last(after.children)
              below  == ValuesBelow(input, FramePath(Len(nodes)))
          IN  IF policy = "max"
              THEN /\ after.value = IF parent.value < node.value
                                    THEN node.value ELSE parent.value
                   /\ edge.edgeValue = <<node.value % 256>>
                   /\ below # {}
                   /\ edge.edgeValue = <<TrueMax(below) % 256>>
              ELSE /\ after.value = parent.value
                   /\ edge.edgeValue = <<>> ]_vars

\* C14: the root's maximum. With the max policy, after a non-empty input the
\* root frame's aggregation value is the greatest projection of all the
\* input's values, also when all of them are below the default scalar.
C14_RootMax ==
    (pc = "done" /\ policy = "max" /\ input # <<>>) =>
        nodes[1].value = TrueMax(ValuesBelow(input, <<>>))

RECURSIVE NodesOf(_, _, _, _, _, _, _)
\* the internal nodes of the subtree in blob[from..to], each with its key
\* prefix, its content as read, and for every descriptor the range of the
\* bytes after the node's content that the sizes give to it and what is
\* read from that range
NodesOf(blob, from, to, isLeaf, baseChar, prefix, evw) ==
    IF from > to \/ isLeaf THEN {}
    ELSE LET node == ReadNode(Slice(blob, 1, to), from, baseChar, evw)
             n    == Len(node.children)
             beg(j) == node.next + SizesBefore(node.children, j)
             end(j) == IF j = n THEN to ELSE beg(j) + node.children[j].size - 1
             key(j) == prefix \o node.children[j].edge
         IN  {[prefix |-> prefix, at |-> from, to |-> to, node |-> node,
               end |-> [j \in 1..n |-> end(j)],
               beg |-> [j \in 1..n |-> beg(j)],
               key |-> [j \in 1..n |-> key(j)],
               sub |-> [j \in 1..n |->
                           ReadSubtree(blob, beg(j), end(j), node.children[j].isLeaf,
                                       Last(<<baseChar>> \o node.children[j].edge),
                                       key(j), evw)]]}
             \cup UNION { NodesOf(blob, beg(j), end(j), node.children[j].isLeaf,
                                  Last(node.children[j].edge), key(j), evw)
                          : j \in {i \in 1..n : node.children[i].edge # <<>>} }

\* the internal nodes of the reversed output
OutputNodes == NodesOf(Reverse(sink), 1, Len(sink), FALSE, DEFAULT_CHAR, <<>>,
                       EdgeValueSize(policy))

\* the pairs of the input's mapping whose keys start with the key path
MappingBelow(path) == {m \in InputMapping(input) : IsPrefix(path, m[1])}

\* every key of the set of pairs A is before every key of B
AllBefore(A, B) == \A a \in A : \A b \in B : LexLess(a[1], b[1])

\* the root comes first and every node is followed at once by the subtrees
\* of its children, each holding the input's keys below that child, in
\* ascending or in descending order of their keys
LayoutHolds(ascending) ==
    LET all == OutputNodes
    IN  /\ \E r \in all : r.at = 1 /\ r.prefix = <<>>
        /\ \A r \in all :
              LET n == Len(r.node.children)
              IN  /\ n >= 1 => r.beg[1] = r.node.next
                  /\ \A j \in 1..n :
                        r.sub[j] # {} /\ r.sub[j] = MappingBelow(r.key[j])
                  /\ \A j \in 1..(n - 1) :
                        IF ascending THEN AllBefore(r.sub[j], r.sub[j + 1])
                        ELSE AllBefore(r.sub[j + 1], r.sub[j])

\* C15 as the spec states it: in the reversed output the root comes first
\* and each node is followed by the subtrees of its children in ascending
\* key order.
C15_Ascending == (pc = "done" /\ NonEmptyKeys(input)) => LayoutHolds(TRUE)

\* C15: in the reversed output the root comes first and each node is
\* followed by the subtrees of its children in descending key order (parent,
\* last child, ..., first child).
C15_Descending == (pc = "done" /\ NonEmptyKeys(input)) => LayoutHolds(FALSE)

\* C15 witness: a finished output whose root has two children, one of them
\* a node with two children
C15_Witness ==
    /\ pc = "done" /\ NonEmptyKeys(input)
    /\ \E r \in OutputNodes : r.prefix = <<>> /\ Len(r.node.children) = 2
    /\ \E r \in OutputNodes : r.prefix # <<>> /\ Len(r.node.children) = 2

\* C16 as the spec states it: every descriptor but the last of a node
\* carries a size, and that many bytes after the end of the descriptor the
\* next sibling's descriptor starts.
C16_SkipToDescriptor ==
    (pc = "done" /\ NonEmptyKeys(input)) =>
        \A r \in OutputNodes : \A j \in 1..(Len(r.node.children) - 1) :
            /\ r.node.children[j].hasSize
            /\ r.node.children[j].next + r.node.children[j].size
                  = r.node.children[j + 1].start

\* C16: every descriptor but the last of a node carries a size, the length
\* of its child's subtree; the next sibling's descriptor starts right at the
\* end of the descriptor, and that many bytes after the start of the child's
\* subtree the next sibling's subtree starts; the last descriptor has no
\* size and its subtree is what is left.
C16_SkipToSubtree ==
    (pc = "done" /\ NonEmptyKeys(input)) =>
        \A r \in OutputNodes :
            LET n == Len(r.node.children)
            IN  /\ \A j \in 1..(n - 1) :
                      /\ r.node.children[j].hasSize
                      /\ r.node.children[j].size >= 1
                      /\ r.node.children[j + 1].start = r.node.children[j].next
                      /\ r.beg[j + 1] = r.beg[j] + r.node.children[j].size
                      /\ r.sub[j] = MappingBelow(r.key[j])
                      /\ r.sub[j + 1] = MappingBelow(r.key[j + 1])
                /\ n >= 1 =>
                      /\ ~r.node.children[n].hasSize
                      /\ r.beg[1] = r.node.next

\* C16 witness: a finished output whose root has three children, the edge
\* of the first descriptor folded
C16_Witness ==
    /\ pc = "done" /\ NonEmptyKeys(input)
    /\ \E r \in OutputNodes :
          /\ r.prefix = <<>> /\ Len(r.node.children) = 3
          /\ Len(r.node.children[1].edge) = 2

\* C17: compression. When all entries of the input carry one key of length
\* n >= 1, Build writes one leaf and the root and nothing else: the root has
\* no values and exactly one child edge, labelled with the whole key, with
\* the leaf flag set, and the sink holds the leaf's value bytes and the root's
\* bytes, each reversed.
C17_Compression ==
    (/\ pc = "done" /\ input # <<>>
     /\ input[1].key # <<>>
     /\ \A i \in 1..Len(input) : input[i].key = input[1].key) =>
        LET k     == input[1].key
            vals  == ValuesOfKey(input, k, Len(input))
            all   == OutputNodes
        IN  /\ Len(nodes) = 1 /\ Len(nodes[1].children) = 1
            /\ nodes[1].children[1].edge = k
            /\ nodes[1].children[1].isLeaf
            /\ nodes[1].children[1].size = Len(Dump(vals))
            /\ wn.called /\ wn.isRoot /\ wn.valueList = <<>>
            /\ wn.children = nodes[1].children
            /\ sink = Reverse(Dump(vals)) \o Reverse(wn.out)
            /\ Cardinality(all) = 1
            /\ \A r \in all :
                  /\ r.at = 1 /\ r.node.values = <<>>
                  /\ Len(r.node.children) = 1
                  /\ r.node.children[1].edge = k
                  /\ r.node.children[1].isLeaf
                  /\ r.sub[1] = {<<k, vals>>}

\* C17 witness: a finished build of two entries with the same key of length
\* two and different values
C17_Witness ==
    /\ pc = "done" /\ Len(input) = 2
    /\ Len(input[1].key) = 2 /\ input[2].key = input[1].key
    /\ input[2].value # input[1].value
    /\ Len(nodes[1].children) = 1 /\ Len(nodes[1].children[1].edge) = 2

\* the length of the longest common prefix of two keys
CommonLen(a, b) ==
    CHOOSE n \in 0..Min(Len(a), Len(b)) :
        /\ \A j \in 1..n : a[j] = b[j]
        /\ n = Min(Len(a), Len(b)) \/ a[n + 1] # b[n + 1]

\* the key of the entry before the last entry taken
KeyBeforeLast == IF Len(input) >= 2 THEN input[Len(input) - 1].key ELSE <<>>

\* C18: the shape of the stack. Frame 0 is the root. When an entry has been
\* processed the stack holds len(key) + 1 frames and the frames after the
\* root spell the key; right after the flush of PopNodes for an entry the
\* stack holds nCommon + 1 frames, which spell the common prefix; the stack
\* is never deeper than the longest key taken plus one.
C18_StackShape ==
    /\ Len(nodes) >= 1 /\ nodes[1].char = DEFAULT_CHAR
    /\ pc = "loop" =>
          /\ Len(nodes) = Len(KeyBefore) + 1
          /\ FramePath(Len(nodes)) = KeyBefore
    /\ (pc = "pop" /\ phase = "entry" /\ nodesToPop = 0) =>
          /\ Len(nodes) = CommonLen(e.key, KeyBeforeLast) + 1
          /\ FramePath(Len(nodes)) = SubSeq(e.key, 1, Len(nodes) - 1)
          /\ FramePath(Len(nodes)) = SubSeq(KeyBeforeLast, 1, Len(nodes) - 1)
    /\ \/ Len(nodes) = 1
       \/ \E i \in 1..Len(input) : Len(nodes) <= Len(input[i].key) + 1

\* C18 witness: the flush for a key of length two that shares one character
\* with the key of length two before it has left two frames
C18_Witness ==
    /\ pc = "pop" /\ phase = "entry" /\ nodesToPop = 0
    /\ Len(e.key) = 2 /\ Len(KeyBeforeLast) = 2
    /\ Len(nodes) = 2
    /\ sink # <<>>

\* C19: no underflow. In PopNodes the number of frames still to pop is at
\* least 0 and less than the size of the stack, so the assertion of line
\* 159 holds, a popped frame has a parent and the root frame stays.
C19_NoUnderflow ==
    /\ pc = "pop" =>
          /\ 0 <= nodesToPop /\ nodesToPop < Len(nodes)
          /\ nodesToPop > 0 => Len(nodes) >= 2
    /\ Len(nodes) >= 1 /\ nodes[1].begPos = 0

\* C19 witness: PopNodes is entered to pop every frame but the root, two
\* of them, for an entry
C19_Witness ==
    /\ pc = "pop" /\ phase = "entry"
    /\ nodesToPop = 2 /\ Len(nodes) = 3

\* no check of the builder has fired: Build has failed only by the check of
\* the order of the keys, no edge given to WriteNode is empty or as long as
\* the ceiling, no edge kept in a frame is empty, and no frame that is
\* popped has no values and no children
NoInternalCheckFires ==
    /\ pc = "failed" => LexLess(Last(input).key, KeyBeforeLast)
    /\ wn.called =>
          /\ wn.ok
          /\ \A j \in 1..Len(wn.children) :
                /\ Len(wn.children[j].edge) # 0
                /\ Len(wn.children[j].edge) < EdgeSizeCeiling
    /\ \A i \in 1..Len(nodes) : \A j \in 1..Len(nodes[i].children) :
          nodes[i].children[j].edge # <<>>
    /\ PopStep =>
          ~(Last(nodes).valueList = <<>> /\ Last(nodes).children = <<>>)

----------------------------------------------------------------------------
(* C21 .. C26: the order of the writes and the layout of the sink *)

\* the step writes a node to the sink (in PopNodes, or the root at the end)
WriteStep == sink' # sink

\* the bytes of the sink that the recorded sizes give to the j-th pending
\* child of a frame, as they read after the reversal
ChildBytes(node, j) ==
    LET from == node.begPos + SizesBefore(node.children, j)
    IN  Reverse(SubSeq(sink, from + 1, from + node.children[j].size))

\* what is read from the bytes of the j-th pending child of the frame
\* reached by the key path
ChildRead(node, path, j) ==
    LET bytes == ChildBytes(node, j)
        child == node.children[j]
    IN  ReadSubtree(bytes, 1, Len(bytes), child.isLeaf, Last(child.edge),
                    path \o child.edge, EdgeValueSize(policy))

\* C21: post-order. When a node is written, the bytes of all its
\* descendants are in the sink already: from the position at which its frame
\* was pushed to the end of the sink lie the subtrees of its pending
\* children, each of its recorded size and holding the input's keys below
\* that child; the step appends the node's own bytes and nothing else, and
\* the descriptors are encoded from the pending children with their sizes.
C21_PostOrder ==
    [][ WriteStep =>
          LET node == Last(nodes)
              path == FramePath(Len(nodes))
              n    == Len(node.children)
          IN  /\ pc = "pop"
              /\ Len(sink) - node.begPos = SizeSum(node.children)
              /\ \A j \in 1..n :
                    /\ node.children[j].size >= 1
                    /\ ChildRead(node, path, j)
                          = MappingBelow(path \o node.children[j].edge)
                    /\ ChildRead(node, path, j) # {}
              /\ wn'.called /\ wn'.children = Reverse(node.children)
              /\ wn'.out # <<>>
              /\ sink' = sink \o Reverse(wn'.out) ]_vars

\* C21 witness: the root has been written after a child that is a node with
\* children of its own and another child
C21_Witness ==
    /\ pc = "done" /\ wn.isRoot
    /\ Len(wn.children) >= 2
    /\ \E j \in 1..Len(wn.children) :
          ~wn.children[j].isLeaf /\ wn.children[j].size >= 3

\* the pop of a frame ends the flush of a subtree into its parent; the
\* siblings flushed before it are the parent's pending children
FlushedSiblingsFirstChars ==
    LET parent == nodes[Len(nodes) - 1]
    IN  {parent.children[j].edge[1] : j \in 1..Len(parent.children)}

\* C22 as the spec states it: the subtrees of the children of one node are
\* flushed in descending key order, so a subtree whose flush ends has a
\* lower key than every sibling flushed before it.
C22_DescendingFlush ==
    [][ (PopStep /\ pc' = "pop") =>
          \A c \in FlushedSiblingsFirstChars : Last(nodes).char < c ]_vars

\* C22: the subtrees of the children of one node are flushed in ascending
\* key order, the first-visited (lowest-keyed) branch first: a subtree whose
\* flush ends has a higher key than every sibling flushed before it, and
\* its bytes start in the sink right where the bytes of those siblings end.
C22_AscendingFlush ==
    [][ (PopStep /\ pc' = "pop") =>
          LET node   == Last(nodes)
              parent == nodes[Len(nodes) - 1]
          IN  /\ \A c \in FlushedSiblingsFirstChars : node.char > c
              /\ node.begPos = parent.begPos + SizeSum(parent.children)
              /\ Len(Last(nodes').children) = Len(parent.children) + 1 ]_vars

\* C22 witness: three sibling subtrees have been flushed into one frame
C22_Witness ==
    /\ pc = "pop" /\ sink # <<>>
    /\ Len(Last(nodes).children) = 3
    /\ Last(nodes).children[1].size + Last(nodes).children[2].size
          + Last(nodes).children[3].size = Len(sink) - Last(nodes).begPos

\* the first characters of the edges of a list of children
FirstChars(children) == [j \in 1..Len(children) |-> children[j].edge[1]]

\* strictly ascending, strictly descending sequences of numbers
Ascending(q) == \A j \in 1..(Len(q) - 1) : q[j] < q[j + 1]

Descending(q) == \A j \in 1..(Len(q) - 1) : q[j] > q[j + 1]

\* C23: the order of the descriptors. In every frame the pending edges have
\* first characters that are strictly ascending in the order of insertion;
\* WriteNode is given them in reverse, so the descriptors of every written
\* node, as given and as read from the output, have strictly descending
\* first characters.
C23_DescriptorOrder ==
    /\ \A i \in 1..Len(nodes) : Ascending(FirstChars(nodes[i].children))
    /\ wn.called =>
          /\ Descending(FirstChars(wn.children))
          /\ \A j \in 1..Len(wn.children) : \A k \in 1..Len(wn.children) :
                j # k => wn.children[j].edge[1] # wn.children[k].edge[1]
    /\ (pc = "done" /\ NonEmptyKeys(input)) =>
          \A r \in OutputNodes :
              /\ Descending(FirstChars(r.node.children))
              /\ r.prefix = <<>> =>
                    FirstChars(r.node.children) = FirstChars(wn.children)

\* C23 witness: the root has been written with three descriptors
C23_Witness ==
    /\ pc = "done" /\ NonEmptyKeys(input)
    /\ wn.isRoot /\ Len(wn.children) = 3
    /\ Len(nodes[1].children) = 3
    /\ nodes[1].children[1].edge[1] < nodes[1].children[3].edge[1]

\* the position in the sink of the byte at position p of the reversed output
SinkPos(p) == Len(sink) + 1 - p

\* what is read from the bytes lo..hi of the sink alone, reversed, as the
\* subtree of a child with the given leaf flag, edge and key
RangeRead(lo, hi, isLeaf, edge, key) ==
    LET bytes == Reverse(SubSeq(sink, lo, hi))
    IN  ReadSubtree(bytes, 1, Len(bytes), isLeaf, Last(edge), key,
                    EdgeValueSize(policy))

\* C24: the layout of the sink. After Build the subtree of every written
\* node is one range of the sink: the subtrees of its children, adjacent,
\* in ascending key order, each a range that read alone holds the input's
\* keys below that child, and right after them the node's own content,
\* reversed; the recorded sizes are the lengths of the children's ranges and
\* with the length of the node's content they add up to the length of the
\* node's range. The root's content is the end of the sink.
C24_SinkLayout ==
    (pc = "done" /\ NonEmptyKeys(input)) =>
        /\ \A r \in OutputNodes :
              LET n      == Len(r.node.children)
                  lo     == SinkPos(r.to)
                  hi     == SinkPos(r.at)
                  own    == r.node.next - r.at
                  clo(j) == SinkPos(r.end[j])
                  chi(j) == SinkPos(r.beg[j])
                  len(j) == chi(j) - clo(j) + 1
              IN  /\ own >= 1
                  /\ n >= 1 => (chi(1) = hi - own /\ clo(n) = lo)
                  /\ \A j \in 1..(n - 1) :
                        /\ chi(j + 1) + 1 = clo(j)
                        /\ r.node.children[j + 1].edge[1] < r.node.children[j].edge[1]
                        /\ r.node.children[j].size = len(j)
                  /\ \A j \in 1..n :
                        /\ len(j) >= 1
                        /\ RangeRead(clo(j), chi(j), r.node.children[j].isLeaf,
                                     r.node.children[j].edge, r.key[j])
                              = MappingBelow(r.key[j])
                        /\ MappingBelow(r.key[j]) # {}
                  /\ SizesBefore(r.node.children, n) + (IF n >= 1 THEN len(n) ELSE 0)
                        + own = hi - lo + 1
        /\ \E r \in OutputNodes : r.prefix = <<>> /\ r.at = 1 /\ r.to = Len(sink)
        /\ SubSeq(sink, Len(sink) - Len(wn.out) + 1, Len(sink)) = Reverse(wn.out)
        /\ SizeSum(nodes[1].children) + Len(wn.out) = Len(sink)

\* C24 witness: a finished output whose root has two children, one of them
\* a node with a value and a child
C24_Witness ==
    /\ pc = "done" /\ NonEmptyKeys(input)
    /\ \E r \in OutputNodes : r.prefix = <<>> /\ Len(r.node.children) = 2
    /\ \E r \in OutputNodes :
          r.prefix # <<>> /\ r.node.values # <<>> /\ Len(r.node.children) = 1

\* some key of the input goes on below the key k
HasKeyBelow(k) ==
    \E i \in 1..Len(input) : IsPrefix(k, input[i].key) /\ input[i].key # k

\* C25: the leaf flag. The flag of an edge, pending in a frame or read from
\* the output (bit 7 of the descriptor's header), is set iff the node the
\* edge leads to has no children; a node other than the root is written in
\* leaf format, its value bytes alone, iff it has no children; folded or
\* not, a leaf-flagged edge has as size the length of the value bytes of
\* its target (the keys being those of the entries Build has accepted).
C25_LeafFlag ==
    /\ pc # "failed" =>
        \A i \in 1..Len(nodes) : \A j \in 1..Len(nodes[i].children) :
          LET child == nodes[i].children[j]
              key   == FramePath(i) \o child.edge
          IN  /\ child.isLeaf <=> ~HasKeyBelow(key)
              /\ child.isLeaf =>
                    child.size = Len(Dump(ValuesOfKey(input, key, Len(input))))
    /\ wn.called =>
          ((wn.out = Dump(wn.valueList)) <=> (wn.children = <<>> /\ ~wn.isRoot))
    /\ (pc = "pop" /\ wn.called /\ ~wn.isRoot /\ Last(nodes).children # <<>>) =>
          LET edge == Last(Last(nodes).children)
          IN  /\ edge.isLeaf <=> wn.children = <<>>
              /\ edge.isLeaf => edge.size = Len(wn.out)
    /\ (pc = "done" /\ NonEmptyKeys(input)) =>
          \A r \in OutputNodes : \A j \in 1..Len(r.node.children) :
              LET d == r.node.children[j]
              IN  /\ d.isLeaf <=> (d.header \div 128) = 1
                  /\ d.isLeaf <=> ~HasKeyBelow(r.key[j])
                  /\ d.isLeaf =>
                        /\ r.end[j] - r.beg[j] + 1
                              = Len(Dump(ValuesOfKey(input, r.key[j], Len(input))))
                        /\ r.sub[j] = {<<r.key[j],
                                         ValuesOfKey(input, r.key[j], Len(input))>>}

\* C25 witness: the root has been written with a leaf-flagged folded edge
\* and an edge to a node with a child
C25_Witness ==
    /\ pc = "done" /\ NonEmptyKeys(input)
    /\ wn.isRoot /\ Len(wn.children) = 2
    /\ \E j \in 1..2 : wn.children[j].isLeaf /\ Len(wn.children[j].edge) = 2
    /\ \E j \in 1..2 : ~wn.children[j].isLeaf

\* C26: the sink is append-only. Every step leaves the bytes of the sink in
\* place, so the position never decreases and the sink is a prefix of every
\* later sink; the sink changes only when a frame is written, and then by
\* one append of the reversed output of that one call of WriteNode.
C26_AppendOnly ==
    [][ /\ Len(sink') >= Len(sink)
        /\ SubSeq(sink', 1, Len(sink)) = sink
        /\ sink' # sink =>
              /\ pc = "pop"
              /\ wn'.called /\ wn'.ok
              /\ wn'.valueList = Last(nodes).valueList
              /\ wn'.children = Reverse(Last(nodes).children)
              /\ sink' = sink \o Reverse(wn'.out)
              /\ Len(nodes') = Len(nodes) - 1 \/ pc' = "done"
        /\ (PopStep /\ ~(Last(nodes).valueList = <<>> /\ Len(Last(nodes).children) = 1)) =>
              sink' = sink \o Reverse(wn'.out) ]_vars

\* C26 witness: Build has finished on three entries and the sink holds the
\* bytes it held after the second entry and more
C26_Witness ==
    /\ pc = "done" /\ Len(input) = 3
    /\ input[3].key # input[2].key
    /\ Len(sink) > Len(wn.out) + 1

====
